---- MODULE Spec2Model ----
(***************************************************************************)
(* Model of the notebook "Wrapping Skorch around PyTorch for GridSearchCV  *)
(* with pre-trained (pre-defined) weights initialization": the             *)
(* RegularizedNet estimator (get_loss, initialize_module), the callbacks   *)
(* it is configured with (EarlyStopping on valid_acc), its fit / predict   *)
(* life cycle, and the GridSearchCV run over the lambda1 x lr grid.        *)
(*                                                                         *)
(* Units.  Scores (valid_acc) are counted in correctly classified rows of  *)
(* the validation slice, so a score is a natural number.  Losses are       *)
(* counted in units of 1e-4 and lambda1 in units of 1e-4 (the grid's       *)
(* 0.0 and 0.0001 are 0 and 1), parameters in units of 1, so that          *)
(* loss + lambda1 * sum|w| is exact integer arithmetic.  Floating point    *)
(* values are finite integers, +inf, -inf or NaN, with IEEE-754 rules.     *)
(***************************************************************************)
EXTENDS Integers, Sequences, FiniteSets, TLC

VARIABLES
    loss,   \* one get_loss call: its inputs and its result
    mon,    \* one EarlyStopping callback observing a stream of scores
    net,    \* one RegularizedNet estimator: attributes and position in fit
    fold,   \* one cross-validation split of a labelled dataset
    gs      \* one GridSearchCV run

vars == <<loss, mon, net, fold, gs>>

----------------------------------------------------------------------------
(* Floating point values as torch computes with them.                      *)

Fin(n) == [k |-> "fin", v |-> n]
PInf == [k |-> "inf", v |-> 1]
NInf == [k |-> "inf", v |-> -1]
NaN == [k |-> "nan", v |-> 0]

IsFin(a) == a.k = "fin"

Sgn(n) == IF n > 0 THEN 1 ELSE IF n < 0 THEN -1 ELSE 0

IAbs(n) == IF n < 0 THEN -n ELSE n

\* a + b
FAdd(a, b) ==
    IF a.k = "nan" \/ b.k = "nan" THEN NaN
    ELSE IF a.k = "inf" /\ b.k = "inf" THEN (IF a.v = b.v THEN a ELSE NaN)
    ELSE IF a.k = "inf" THEN a
    ELSE IF b.k = "inf" THEN b
    ELSE Fin(a.v + b.v)

\* a * b: 0 * inf is NaN
FMul(a, b) ==
    IF a.k = "nan" \/ b.k = "nan" THEN NaN
    ELSE IF a.k = "inf" \/ b.k = "inf"
         THEN (IF Sgn(a.v) * Sgn(b.v) = 0 THEN NaN
               ELSE [k |-> "inf", v |-> Sgn(a.v) * Sgn(b.v)])
    ELSE Fin(a.v * b.v)

\* w.abs()
FAbs(a) ==
    IF a.k = "nan" THEN NaN
    ELSE IF a.k = "inf" THEN PInf
    ELSE Fin(IAbs(a.v))

----------------------------------------------------------------------------
(* MyModule: three Linear layers, each with a weight and a bias tensor.    *)
(* A tensor is the sequence of its elements; its shape is its length.      *)

\* module_.parameters() yields the tensors in this order
ParamNames == <<"fc1.weight", "fc1.bias", "fc2.weight", "fc2.bias", "fc3.weight", "fc3.bias">>

NameSet == {ParamNames[i] : i \in 1..Len(ParamNames)}

\* number of elements of each tensor of the module as constructed
ModuleShape(name) == IF name = "fc1.weight" THEN 2 ELSE 1

\* a tensor of n elements all equal to x
Full(n, x) == [i \in 1..n |-> x]

RECURSIVE SumTo(_, _)
\* 0 + xs[1] + ... + xs[n], added from the left: s is the sum before xs[n]
SumTo(xs, n) ==
    IF n = 0 THEN Fin(0)
    ELSE CHOOSE r \in {FAdd(s, x) : s \in {SumTo(xs, n - 1)}, x \in {xs[n]}} : TRUE

\* w.sum(): the elements of w added up
TensorSum(w) == SumTo(w, Len(w))

\* w.abs().sum()
AbsSum(w) == TensorSum([i \in 1..Len(w) |-> FAbs(w[i])])

\* Python's sum(list): 0 + list[0] + list[1] + ...
PySum(xs) == SumTo(xs, Len(xs))

\* sum([w.abs().sum() for w in self.module_.parameters()])
L1Mutant_NoBias(params) ==
    PySum([i \in 1..3 |-> AbsSum(params[ParamNames[2 * i - 1]])])

L1Norm(params) ==
    PySum([i \in 1..Len(ParamNames) |-> AbsSum(params[ParamNames[i]])])

\* RegularizedNet.get_loss: loss = super().get_loss(...); loss += lambda1 * sum(...)
get_loss(base, lambda1, params) ==
    CHOOSE l \in {FAdd(base, penalty) :
                    penalty \in {FMul(Fin(lambda1), norm) : norm \in {L1Norm(params)}}} : TRUE

----------------------------------------------------------------------------
(* Bounds of the model.                                                    *)

MaxLambda == 2      \* lambda1 ranges over 0..MaxLambda (units of 1e-4)
MaxBase == 1        \* finite base losses range over 0..MaxBase
MaxPatience == 3    \* patience ranges over 0..MaxPatience
MaxObs == 5         \* scores one monitor observes in one fit
ScoreBase == 11755  \* scores range over ScoreBase..ScoreBase + MaxRise (rows of 12000)
MaxRise == 2
MaxEpochs == 3      \* max_epochs ranges over 1..MaxEpochs
MaxFits == 2        \* fit calls on one estimator object
MaxSaves == 1       \* save_params calls that rewrite the pickle
MaxRows == 8        \* dataset sizes range over 2..MaxRows
MaxFolds == 3       \* cv ranges over 2..MaxFolds
MaxClass == 1       \* labels range over 0..MaxClass
MaxFails == 2       \* fits of one search that raise
MaxScore == 1       \* a fold's test score ranges over 0..MaxScore
MaxWorkers == 2     \* n_jobs ranges over 1..MaxWorkers

----------------------------------------------------------------------------
(* Values of the variables a specification does not use.                   *)

LossIdle == [called |-> FALSE, training |-> FALSE, base |-> Fin(0), lambda1 |-> 0,
             params |-> <<>>, result |-> Fin(0)]
MonIdle == [active |-> FALSE]
NetIdle == [pc |-> "none"]
FoldIdle == [done |-> FALSE]
GsIdle == [phase |-> "none"]

----------------------------------------------------------------------------
(* SpecLoss: one call of RegularizedNet.get_loss.  The base loss is what   *)
(* the criterion (CrossEntropyLoss) returned for y_pred and y_true; it and *)
(* the module's parameters are the inputs.                                 *)

LossWeights == {Fin(-1), Fin(2), PInf}

\* every parameter collection of the module's shapes with elements in LossWeights
LossParams ==
    {[name \in NameSet |-> IF ModuleShape(name) = 2 THEN <<f[name], g>> ELSE <<f[name]>>] :
        f \in [NameSet -> LossWeights], g \in LossWeights}

BaseLosses == {Fin(b) : b \in 0..MaxBase} \cup {PInf, NaN}

InitLoss ==
    /\ \E p \in LossParams, b \in BaseLosses, l \in 0..MaxLambda :
          loss = [called |-> FALSE, training |-> FALSE, base |-> b, lambda1 |-> l,
                  params |-> p, result |-> Fin(0)]
    /\ mon = MonIdle /\ net = NetIdle /\ fold = FoldIdle /\ gs = GsIdle

\* net.get_loss(y_pred, y_true, X, training)
GetLoss(training) ==
    /\ ~loss.called
    /\ loss' = [loss EXCEPT !.called = TRUE, !.training = training,
                            !.result = get_loss(loss.base, loss.lambda1, loss.params)]
    /\ UNCHANGED <<mon, net, fold, gs>>

NextLoss == \E training \in BOOLEAN : GetLoss(training)

SpecLoss == InitLoss /\ [][NextLoss]_vars

----------------------------------------------------------------------------
(* Claims about the Regularized Loss Function (under SpecLoss).            *)

\* the (name, index) places of the parameter collection
Places(params) == {pl \in NameSet \X (1..2) : pl[2] <= Len(params[pl[1]])}

AllFinite(params) == \A pl \in Places(params) : IsFin(params[pl[1]][pl[2]])

RECURSIVE SumOfAbs(_, _)
\* the sum of |params[name][i]| over a set of places, each place once
SumOfAbs(params, places) ==
    IF places = {} THEN 0
    ELSE LET pl == CHOOSE x \in places : TRUE
         IN IAbs(params[pl[1]][pl[2]].v) + SumOfAbs(params, places \ {pl})

\* C3 (as claimed): with lambda1 = 0 the regularized loss is exactly the
\* base loss, for every base loss and every parameter collection.
C3_ZeroLambdaIsBaseLoss ==
    (loss.called /\ loss.lambda1 = 0) => loss.result = loss.base

LossValueCorrect(l) ==
    /\ (IsFin(l.base) /\ AllFinite(l.params))
          => l.result = Fin(l.base.v + l.lambda1 * SumOfAbs(l.params, Places(l.params)))
    /\ (IsFin(l.base) /\ ~AllFinite(l.params) /\ l.lambda1 > 0)
          => l.result = PInf

\* C4: get_loss returns base_loss + lambda1 * (sum of the absolute values of
\* all module parameters, each element of each tensor counted once), and the
\* call changes no module parameter.
C4_LossIsBasePlusL1 ==
    [][/\ loss'.params = loss.params
       /\ loss'.called => LossValueCorrect(loss')]_vars

\* C4 witness: a call with a positive coefficient on finite parameters, one
\* of them negative, that added a penalty to a finite base loss.
C4_Witness ==
    /\ loss.called /\ loss.lambda1 > 0 /\ IsFin(loss.base) /\ AllFinite(loss.params)
    /\ loss.params["fc3.bias"][1] = Fin(-1)
    /\ IsFin(loss.result) /\ loss.result.v > loss.base.v

----------------------------------------------------------------------------
(* skorch.callbacks.EarlyStopping(monitor='valid_acc', lower_is_better=..) *)
(* with its defaults threshold=1e-4, threshold_mode='rel'.                 *)
(* dynamic_threshold_ is kept times ThresholdDen, so the comparison        *)
(* score > best * (1 + 1e-4) is ThresholdDen * score > (ThresholdDen+1) *  *)
(* best.                                                                   *)

ThresholdDen == 10000

\* _calc_new_threshold(score), times ThresholdDen
calc_new_threshold(lower_is_better, score) ==
    IF lower_is_better THEN Fin(ThresholdDen * score - score)
    ELSE Fin(ThresholdDen * score + score)

\* _is_score_improved(score)
ImprovedMutant_NoThreshold(lower_is_better, thr, score) ==
    IF thr.k = "inf" THEN TRUE
    ELSE IF lower_is_better THEN ThresholdDen * score - score < thr.v
    ELSE ThresholdDen * score + score > thr.v

is_score_improved(lower_is_better, thr, score) ==
    IF thr.k = "inf" THEN TRUE
    ELSE IF lower_is_better THEN ThresholdDen * score < thr.v
    ELSE ThresholdDen * score > thr.v

\* on_train_begin: misses_ = 0, dynamic_threshold_ = +-inf
ResetMutant_KeepsMisses(m) ==
    [m EXCEPT !.dynamic_threshold_ = IF m.lower_is_better THEN PInf ELSE NInf]

MonitorReset(m) ==
    [m EXCEPT !.misses_ = 0,
              !.dynamic_threshold_ = IF m.lower_is_better THEN PInf ELSE NInf]

\* on_epoch_end without the raise: the callback's attributes afterwards
UpdateMutant_MovesThresholdOnMiss(m, score) ==
    IF is_score_improved(m.lower_is_better, m.dynamic_threshold_, score)
    THEN [m EXCEPT !.misses_ = 0,
                   !.dynamic_threshold_ = calc_new_threshold(m.lower_is_better, score)]
    ELSE [m EXCEPT !.misses_ = m.misses_ + 1,
                   !.dynamic_threshold_ = calc_new_threshold(m.lower_is_better, score)]

MonitorUpdate(m, score) ==
    IF is_score_improved(m.lower_is_better, m.dynamic_threshold_, score)
    THEN [m EXCEPT !.misses_ = 0,
                   !.dynamic_threshold_ = calc_new_threshold(m.lower_is_better, score)]
    ELSE [m EXCEPT !.misses_ = m.misses_ + 1]

\* whether on_epoch_end raises KeyboardInterrupt: misses_ == patience
StopsMutant_OneEpochLate(m) == m.misses_ > m.patience

MonitorStops(m) == m.misses_ = m.patience

----------------------------------------------------------------------------
(* SpecMon: one EarlyStopping callback fed a stream of scores, one per     *)
(* epoch, by the fit loop; a stop ends the fit, and the next fit begins    *)
(* with on_train_begin.                                                    *)

Scores == (ScoreBase..(ScoreBase + MaxRise)) \cup {9600, 10200}

InitMon ==
    /\ \E p \in 0..MaxPatience, lib \in BOOLEAN :
          mon = [active |-> TRUE, patience |-> p, lower_is_better |-> lib,
                 misses_ |-> 0, dynamic_threshold_ |-> IF lib THEN PInf ELSE NInf,
                 history |-> <<>>, last |-> "none"]
    /\ loss = LossIdle /\ net = NetIdle /\ fold = FoldIdle /\ gs = GsIdle

\* on_epoch_end(net): observe net.history[-1, 'valid_acc']
MonOnEpochEnd(score) ==
    /\ mon.last # "stop"
    /\ Len(mon.history) < MaxObs
    /\ LET m == MonitorUpdate(mon, score)
       IN mon' = [m EXCEPT !.history = Append(mon.history, score),
                           !.last = IF MonitorStops(m) THEN "stop" ELSE "continue"]
    /\ UNCHANGED <<loss, net, fold, gs>>

\* on_train_begin(net): the next fit starts
MonOnTrainBegin ==
    /\ mon.last = "stop" \/ Len(mon.history) = MaxObs
    /\ mon' = [MonitorReset(mon) EXCEPT !.history = <<>>, !.last = "none"]
    /\ UNCHANGED <<loss, net, fold, gs>>

NextMon == (\E score \in Scores : MonOnEpochEnd(score)) \/ MonOnTrainBegin

SpecMon == InitMon /\ [][NextMon]_vars

----------------------------------------------------------------------------
(* Module construction and torch's Module.load_state_dict(state_dict).     *)

\* MyModule(**kwargs): nn.Linear's default initialisation, drawn at random
NewModule(r) == [name \in NameSet |-> Full(ModuleShape(name), Fin(r))]

\* the placeholder for an estimator that has no module_ attribute
NoModule == [name \in NameSet |-> <<>>]

\* a key of the state dict that the module has, with the module's shape
KeyMatches(module, sd, name) ==
    name \in sd.keys /\ Len(sd.t[name]) = Len(module[name])

\* load_state_dict raises RuntimeError: a key is missing or a size differs
LoadFails(module, sd) == \E name \in NameSet : ~KeyMatches(module, sd, name)

\* the module's parameters after load_state_dict: every parameter whose key
\* is present with the same shape is copied (param.copy_), the others are
\* skipped and reported when all parameters have been visited
load_state_dict(module, sd) ==
    [name \in NameSet |->
        IF KeyMatches(module, sd, name) THEN sd.t[name] ELSE module[name]]

\* RegularizedNet.initialize_module: super().initialize_module() builds the
\* module, then the state dict of the pickle is loaded if reinit_from_pretrain.
\* The result is the module_ attribute and whether the call raised.
InitMutant_OnlyFirstTime(n, r, pkl) ==
    IF n.reinit_from_pretrain /\ ~n.initialized_
    THEN [module_ |-> load_state_dict(NewModule(r), pkl),
          raised |-> LoadFails(NewModule(r), pkl)]
    ELSE [module_ |-> NewModule(r), raised |-> FALSE]

initialize_module(n, r, pkl) ==
    IF n.reinit_from_pretrain
    THEN [module_ |-> load_state_dict(NewModule(r), pkl),
          raised |-> LoadFails(NewModule(r), pkl)]
    ELSE [module_ |-> NewModule(r), raised |-> FALSE]

\* module_.state_dict() as save_params pickles it
state_dict(module) == [keys |-> NameSet, t |-> module]

\* one optimizer step: every element moves by the gradient step grad
OptimizerStep(module, grad) ==
    [name \in NameSet |-> [i \in 1..Len(module[name]) |-> FAdd(module[name][i], grad)]]

\* the module has a parameter that is not finite
HasNonFinite(module) ==
    \E name \in NameSet : \E i \in 1..Len(module[name]) : ~IsFin(module[name][i])

\* super().get_loss(y_pred, y_true): the criterion on the module's output.  A
\* NaN in the input or in a parameter goes through every layer to the loss;
\* the value of a finite loss plays no part in the epoch loop, 0 stands for it
criterion(X, module) == IF X = "nan" \/ HasNonFinite(module) THEN NaN ELSE Fin(0)

\* loss.backward(): the step the optimizer takes for a gradient step g; the
\* gradient of a loss that is not finite is NaN
backward(l, g) == IF IsFin(l) THEN Fin(g) ELSE NaN

----------------------------------------------------------------------------
(* Spec: the life cycle of one RegularizedNet estimator: constructed or    *)
(* cloned, fitted (initialize, on_train_begin, the epoch loop with the     *)
(* EarlyStopping callback, on_train_end), asked to predict, its parameters *)
(* saved to the pickle that initialize_module loads.                       *)

\* valid_acc of an epoch: one value and one that beats it by more than the
\* callback's threshold
NetScores == {ScoreBase, ScoreBase + MaxRise}
RandomInits == {1, 2}
GradSteps == {1}

\* pickles initialize_module may find: one saved from this architecture, one
\* saved from a module with another hidden_size2, one lacking a key
PickleGood == state_dict([name \in NameSet |-> Full(ModuleShape(name), Fin(5))])
PickleOtherShape ==
    [keys |-> NameSet,
     t |-> [name \in NameSet |->
              IF name = "fc3.weight" THEN Full(2, Fin(7)) ELSE Full(ModuleShape(name), Fin(7))]]
PickleMissingKey ==
    [keys |-> NameSet \ {"fc3.bias"},
     t |-> [name \in NameSet |-> Full(ModuleShape(name), Fin(7))]]
Pickles == {PickleGood, PickleOtherShape, PickleMissingKey}

\* no earlier fit of this estimator has completed
NoFit == [completed |-> FALSE, X |-> "none", start_params |-> NoModule, history |-> <<>>,
          stop |-> "none"]

\* the inputs fit is given: a dataset of 784 features per row, one of another
\* feature count, one with a NaN feature
DataKinds == {"ok", "wrong_size", "nan"}

\* RegularizedNet(...): the attributes __init__ sets; nothing is initialized
NewNet(lambda1, reinit, dropout, patience, max_epochs, pkl, saves) ==
    [pc |-> "idle", lambda1 |-> lambda1, reinit_from_pretrain |-> reinit,
     \* module__dropout > 0
     dropout |-> dropout,
     max_epochs |-> max_epochs,
     early_stop |-> [patience |-> patience, lower_is_better |-> FALSE, misses_ |-> 0,
                     dynamic_threshold_ |-> NInf],
     initialized_ |-> FALSE, has_module |-> FALSE, module_ |-> NoModule,
     history |-> <<>>, pkl |-> pkl, saves |-> saves, X |-> "none",
     \* what the calls made so far did
     fits |-> 0, fitted |-> FALSE, init_calls |-> 0, start_params |-> NoModule,
     error |-> "none", predicted |-> FALSE,
     \* how the last fit's epoch loop ended, if that fit completed
     last_stop |-> "none",
     \* the epochs this estimator ran without dropout: parameters before, step
     \* and score after
     memo |-> {},
     \* the epoch of the current fit in which a batch's loss first was not finite
     nonfinite_at |-> 0,
     \* the fit before the current one, if it completed
     prev |-> NoFit]

Init ==
    /\ \E reinit \in BOOLEAN, dropout \in BOOLEAN, patience \in 1..MaxPatience,
          max_epochs \in 1..MaxEpochs, pkl \in Pickles :
          \* with reinit_from_pretrain = False no pickle is named (pretrained_nn=None)
          /\ ~reinit => pkl = PickleGood
          /\ net = NewNet(0, reinit, dropout, patience, max_epochs, pkl, 0)
    /\ loss = LossIdle /\ mon = MonIdle /\ fold = FoldIdle /\ gs = GsIdle

\* net.fit(X, y), up to the end of initialize(): the module is built and
\* initialize_module applied; an error of load_state_dict leaves fit.
Fit(X, r) ==
    /\ net.pc = "idle"
    /\ net.fits < MaxFits
    /\ LET im == initialize_module(net, r, net.pkl)
       IN net' = [net EXCEPT
                    !.fits = net.fits + 1,
                    !.X = X,
                    !.nonfinite_at = 0,
                    !.init_calls = 1,
                    !.has_module = TRUE,
                    !.module_ = im.module_,
                    !.start_params = NoModule,
                    !.predicted = FALSE,
                    !.prev = IF net.last_stop # "none"
                             THEN [completed |-> TRUE, X |-> net.X,
                                   start_params |-> net.start_params,
                                   history |-> net.history, stop |-> net.last_stop]
                             ELSE NoFit,
                    !.last_stop = "none",
                    !.error = IF im.raised THEN "RuntimeError(load_state_dict)" ELSE "none",
                    !.initialized_ = IF im.raised THEN net.initialized_ ELSE TRUE,
                    !.history = IF im.raised THEN net.history ELSE <<>>,
                    !.pc = IF im.raised THEN "idle" ELSE "initialized"]
    /\ UNCHANGED <<loss, mon, fold, gs>>

\* partial_fit: notify('on_train_begin'), the epoch loop starts
TrainBegin ==
    /\ net.pc = "initialized"
    /\ net' = [net EXCEPT !.pc = "training",
                          !.early_stop = MonitorReset(net.early_stop)]
    /\ UNCHANGED <<loss, mon, fold, gs>>

\* Without dropout an epoch draws nothing from torch's random generator (the
\* train iterator does not shuffle, the validation split is not shuffled):
\* on the same data its step and its score are functions of the parameters
\* it starts from, so an epoch run before from these parameters repeats.
\* nn.Dropout(p > 0) draws its masks from the global generator, which no fit
\* seeds, so the epoch's outcome is not determined by the parameters.
Repeats(memo, X, module, g, score) ==
    \A e \in memo : (e.X = X /\ e.module_ = module) => (e.g = g /\ e.score = score)

\* one epoch of fit_loop: the batches' train steps, the validation pass, the
\* on_epoch_end callbacks; MyModule.forward's x.view(-1, 784) raises on an
\* input of the wrong size
Epoch(g, score) ==
    /\ net.pc = "training"
    /\ ~net.dropout => Repeats(net.memo, net.X, net.module_, g, score)
    /\ IF net.X = "wrong_size"
       THEN net' = [net EXCEPT !.pc = "idle", !.error = "RuntimeError(view)",
                               !.start_params = net.module_]
       ELSE \E l \in {get_loss(criterion(net.X, net.module_), net.lambda1, net.module_)} :
            \E grad \in {backward(l, g)} :
            LET m == MonitorUpdate(net.early_stop, score)
                h == Append(net.history, score)
            IN net' = [net EXCEPT
                         !.start_params = IF net.history = <<>> THEN net.module_
                                          ELSE net.start_params,
                         !.module_ = OptimizerStep(net.module_, grad),
                         !.nonfinite_at = IF net.nonfinite_at = 0 /\ ~IsFin(l) THEN Len(h)
                                          ELSE net.nonfinite_at,
                         !.history = h,
                         !.early_stop = m,
                         !.memo = IF net.dropout THEN net.memo
                                  ELSE net.memo \cup {[X |-> net.X, module_ |-> net.module_, g |-> g,
                                                       score |-> score]},
                         !.pc = IF MonitorStops(m) THEN "stopped_early"
                                ELSE IF Len(h) = net.max_epochs THEN "exhausted"
                                ELSE "training"]
    /\ UNCHANGED <<loss, mon, fold, gs>>

\* notify('on_train_end'); fit returns self
FitEndMutant_RollsBack ==
    /\ net.pc \in {"stopped_early", "exhausted"}
    /\ net' = [net EXCEPT !.pc = "idle", !.fitted = TRUE, !.last_stop = net.pc,
                          !.module_ = net.start_params]
    /\ UNCHANGED <<loss, mon, fold, gs>>

FitEnd ==
    /\ net.pc \in {"stopped_early", "exhausted"}
    /\ net' = [net EXCEPT !.pc = "idle", !.fitted = TRUE, !.last_stop = net.pc]
    /\ UNCHANGED <<loss, mon, fold, gs>>

\* net.predict(X): check_is_fitted looks for the module_ attribute
Predict ==
    /\ net.pc = "idle"
    /\ net' = [net EXCEPT !.error = IF net.has_module THEN "none" ELSE "NotInitializedError",
                          !.predicted = net.has_module]
    /\ UNCHANGED <<loss, mon, fold, gs>>

\* net.save_params(f_params='pre-trained-NN.pkl')
SaveParams ==
    /\ net.pc = "idle"
    /\ net.initialized_
    /\ net.saves < MaxSaves
    /\ net' = [net EXCEPT !.pkl = state_dict(net.module_), !.saves = net.saves + 1,
                          !.error = "none"]
    /\ UNCHANGED <<loss, mon, fold, gs>>

\* sklearn.base.clone(net).set_params(lambda1=...), as GridSearchCV does for
\* every (candidate, fold) and for the refit: a new object built from
\* get_params(), with no attribute ending in '_'
Clone(lambda1) ==
    /\ net.pc = "idle"
    /\ net' = NewNet(lambda1, net.reinit_from_pretrain, net.dropout, net.early_stop.patience,
                     net.max_epochs, net.pkl, net.saves)
    /\ UNCHANGED <<loss, mon, fold, gs>>

Next ==
    \/ \E X \in DataKinds, r \in RandomInits : Fit(X, r)
    \/ TrainBegin
    \/ \E g \in GradSteps, score \in NetScores : Epoch(g, score)
    \/ FitEnd
    \/ Predict
    \/ SaveParams
    \/ \E lambda1 \in 0..1 : Clone(lambda1)

Spec == Init /\ [][Next]_vars

\* SpecFit: the fits of one estimator, run to their end.  fit is one
\* sequential call: once entered, on_train_begin, every epoch of the loop and
\* on_train_end are executed without waiting for anything.
EpochStep == \E g \in GradSteps, score \in NetScores : Epoch(g, score)

NextFit ==
    \/ \E X \in DataKinds, r \in RandomInits : Fit(X, r)
    \/ TrainBegin
    \/ EpochStep
    \/ FitEnd

SpecFit ==
    /\ Init /\ [][NextFit]_vars
    /\ WF_vars(TrainBegin) /\ WF_vars(EpochStep) /\ WF_vars(FitEnd)

----------------------------------------------------------------------------
(* The Fold Partition: GridSearchCV(cv=k) on a classifier splits with      *)
(* StratifiedKFold(n_splits=k), no shuffling (_make_test_folds).  Rows and *)
(* folds are numbered from 0 as in the code; y[r + 1] is row r's label.    *)

Rows(y) == 0..(Len(y) - 1)

\* the first row that has label c
FirstRow(y, c) == CHOOSE r \in Rows(y) : y[r + 1] = c /\ \A q \in 0..(r - 1) : y[q + 1] # c

\* y_encoded: classes numbered in their order of first appearance
y_encoded(y) ==
    [i \in 1..Len(y) |->
        Cardinality({c \in {y[j] : j \in 1..Len(y)} : FirstRow(y, c) < FirstRow(y, y[i])})]

\* y_counts[c] = np.bincount(y_encoded)[c]
y_counts(ye, c) == Cardinality({i \in 1..Len(ye) : ye[i] = c})

n_classes(ye) == Cardinality({ye[i] : i \in 1..Len(ye)})

\* y_order[j] for y_order = np.sort(y_encoded)
y_order(ye, j) ==
    CHOOSE c \in 0..(n_classes(ye) - 1) :
        LET below == Cardinality({i \in 1..Len(ye) : ye[i] < c})
        IN below <= j /\ j < below + y_counts(ye, c)

\* allocation[i][c] = np.bincount(y_order[i::n_splits])[c]
AllocationMutant_PerClassChunks(ye, k, i, c) ==
    (y_counts(ye, c) \div k) + (IF i < y_counts(ye, c) % k THEN 1 ELSE 0)

allocation(ye, k, i, c) ==
    Cardinality({j \in Rows(ye) : j % k = i /\ y_order(ye, j) = c})

RECURSIVE AllocatedBefore(_, _, _, _)
\* how many rows of class c the folds before fold i take
AllocatedBefore(ye, k, i, c) ==
    IF i = 0 THEN 0
    ELSE AllocatedBefore(ye, k, i - 1, c) + allocation(ye, k, i - 1, c)

\* test_folds[r]: folds_for_class = arange(n_splits).repeat(allocation[:, c])
\* is handed to the rows of class c in row order
test_fold(ye, k, r) ==
    LET c == ye[r + 1]
        m == Cardinality({q \in 0..(r - 1) : ye[q + 1] = c})
    IN CHOOSE i \in 0..(k - 1) :
          /\ AllocatedBefore(ye, k, i, c) <= m
          /\ m < AllocatedBefore(ye, k, i, c) + allocation(ye, k, i, c)

\* split(X, y) raises ValueError: more splits than rows, or than the members
\* of every class
SplitRaises(y, k) ==
    \/ k > Len(y)
    \/ \A c \in {y_encoded(y)[i] : i \in 1..Len(y)} : k > y_counts(y_encoded(y), c)

\* the (train, test) index sets split yields, fold by fold
split(y, k) ==
    [i \in 0..(k - 1) |->
        LET test == {r \in Rows(y) : test_fold(y_encoded(y), k, r) = i}
        IN [train |-> Rows(y) \ test, test |-> test]]

\* the estimator's internal split: NeuralNetClassifier's default
\* train_split=ValidSplit(5) takes the first split of StratifiedKFold(5)
ValidSplitCv == 5

\* X[rows][j], numbered from 0: indexing by a sorted index array keeps row order
RowAt(rows, j) == CHOOSE r \in rows : Cardinality({q \in rows : q < r}) = j

\* y[rows]
Labels(y, rows) == [j \in 1..Cardinality(rows) |-> y[RowAt(rows, j - 1) + 1]]

\* ValidSplit(5)(dataset, y) on the rows fit was given: the rows of the
\* internal training slice and of the internal validation slice, or raised
ValidSplitMutant_PositionsAsRows(y, rows) ==
    IF SplitRaises(Labels(y, rows), ValidSplitCv)
    THEN [raised |-> TRUE, train |-> {}, valid |-> {}]
    ELSE LET first == split(Labels(y, rows), ValidSplitCv)[0]
         IN [raised |-> FALSE, train |-> first.train, valid |-> first.test]

valid_split(y, rows) ==
    IF SplitRaises(Labels(y, rows), ValidSplitCv)
    THEN [raised |-> TRUE, train |-> {}, valid |-> {}]
    ELSE LET first == split(Labels(y, rows), ValidSplitCv)[0]
         IN [raised |-> FALSE,
             train |-> {RowAt(rows, j) : j \in first.train},
             valid |-> {RowAt(rows, j) : j \in first.test}]

----------------------------------------------------------------------------
(* SpecFold: one split of a labelled dataset into cv folds, and the fit of *)
(* one candidate on every fold.                                            *)

InitFold ==
    /\ \E n \in 2..MaxRows, k \in 2..MaxFolds :
         \E y \in [1..n -> 0..MaxClass] :
            fold = [done |-> FALSE, y |-> y, k |-> k, raised |-> FALSE, folds |-> <<>>,
                    fits |-> <<>>]
    /\ loss = LossIdle /\ mon = MonIdle /\ net = NetIdle /\ gs = GsIdle

\* list(cv.split(X, y)) as GridSearchCV.fit evaluates it
Split ==
    /\ ~fold.done
    /\ fold' = IF SplitRaises(fold.y, fold.k)
               THEN [fold EXCEPT !.done = TRUE, !.raised = TRUE]
               ELSE [fold EXCEPT !.done = TRUE,
                                 !.folds = [i \in 1..fold.k |-> split(fold.y, fold.k)[i - 1]]]
    /\ UNCHANGED <<loss, mon, net, gs>>

\* _fit_and_score for the next fold: estimator.fit(X[train], y[train]), which
\* splits the rows it is given into its training and validation slices, then
\* the score on X[test], y[test]; a fit that raises is scored error_score
FoldFit ==
    /\ fold.done /\ ~fold.raised
    /\ Len(fold.fits) < fold.k
    /\ LET f == fold.folds[Len(fold.fits) + 1]
           vs == valid_split(fold.y, f.train)
       IN fold' = [fold EXCEPT !.fits = Append(fold.fits,
                      [fold |-> Len(fold.fits), X |-> f.train, raised |-> vs.raised,
                       train |-> vs.train, valid |-> vs.valid,
                       scored |-> IF vs.raised THEN {} ELSE f.test])]
    /\ UNCHANGED <<loss, mon, net, gs>>

NextFold == Split \/ FoldFit

SpecFold == InitFold /\ [][NextFold]_vars

----------------------------------------------------------------------------
(* GridSearchCV(new_net_gs, grid, refit=.., cv=k).fit(X, y) with the       *)
(* defaults scoring=None (the classifier's accuracy), error_score=nan,     *)
(* n_jobs=None.  A grid has a list of lambda1 values and a list of lr      *)
(* values; a candidate is numbered by its place in ParameterGrid's order.  *)

NCand(g) == g.nLambda * g.nLr

\* ParameterGrid: keys sorted ('lambda1' < 'lr'), itertools.product over the
\* value lists, the last key varying fastest; the candidate's value indexes
CandParams(g, c) == [lambda1 |-> c \div g.nLr, lr |-> c % g.nLr]

\* product(enumerate(candidate_params), enumerate(cv.split(X, y))): the
\* pos-th (candidate, fold) pair evaluated
PairAtMutant_WrongModulus(g, pos) ==
    [cand |-> pos \div g.k, fold |-> pos % g.nLambda]

PairAt(g, pos) == [cand |-> pos \div g.k, fold |-> pos % g.k]

Pending == [st |-> "pending", v |-> 0]
FitFailed == [st |-> "fail", v |-> 0]      \* error_score = nan
Scored(v) == [st |-> "ok", v |-> v]

RECURSIVE RowSum(_, _)
\* the sum of a candidate's first n fold scores
RowSum(row, n) == IF n = 0 THEN 0 ELSE RowSum(row, n - 1) + row[n - 1].v

\* mean_test_score[c] = np.average of the k fold scores: NaN if a fold's fit
\* failed, else num / den
mean_test_score(g) ==
    [c \in 0..(NCand(g) - 1) |->
        [nan |-> \E f \in 0..(g.k - 1) : g.scores[c][f].st = "fail",
         num |-> RowSum(g.scores[c], g.k), den |-> g.k]]

\* a > b on means, NaN counting as below every number and tied with NaN
MeanGreater(a, b) ==
    IF a.nan THEN FALSE
    ELSE IF b.nan THEN TRUE
    ELSE a.num * b.den > b.num * a.den

\* rank_test_score = rankdata(-means, method='min'), NaN ranked last
rank_test_score(means) ==
    [c \in DOMAIN means |->
        1 + Cardinality({j \in DOMAIN means : MeanGreater(means[j], means[c])})]

\* ranks.argmin(): the first index of the least rank
ArgminMutant_LastMinimum(ranks) ==
    CHOOSE c \in DOMAIN ranks :
        /\ \A j \in DOMAIN ranks : ranks[c] <= ranks[j]
        /\ \A j \in DOMAIN ranks : j > c => ranks[j] # ranks[c]

argmin(ranks) ==
    CHOOSE c \in DOMAIN ranks :
        /\ \A j \in DOMAIN ranks : ranks[c] <= ranks[j]
        /\ \A j \in DOMAIN ranks : j < c => ranks[j] # ranks[c]

\* best_index_ = results['rank_test_score'].argmin()
best_index(g) == argmin(rank_test_score(mean_test_score(g)))

\* every fit of the search failed
AllFitsFailed(g) ==
    \A c \in 0..(NCand(g) - 1), f \in 0..(g.k - 1) : g.scores[c][f].st = "fail"

----------------------------------------------------------------------------
(* SpecGS: one GridSearchCV.fit.  Each _fit_and_score clones the           *)
(* prototype, sets the candidate's parameters, fits on the other folds and *)
(* scores on the held-out fold; a fit that raises scores error_score.      *)

\* the notebook's grid has two lambda1 and two lr values and is searched with
\* cv=3; the model runs every grid and cv up to these
GridLambdas == 2
GridLrs == 2
CvFolds == 3

Outcomes == {FitFailed} \cup {Scored(v) : v \in 0..MaxScore}

InitGS ==
    /\ \E nLambda \in 1..GridLambdas, nLr \in 1..GridLrs, k \in 2..CvFolds, refit \in BOOLEAN :
          gs = [phase |-> "cv", nLambda |-> nLambda, nLr |-> nLr, k |-> k, refit |-> refit,
                pos |-> 0, fails |-> 0, n_jobs |-> 1, running |-> {},
                scores |-> [c \in 0..(nLambda * nLr - 1) |-> [f \in 0..(k - 1) |-> Pending]],
                \* estimators made by clone so far; estimator 0 is the prototype
                made |-> 0,
                cv_log |-> <<>>,
                best_index_ |-> -1, best_params_ |-> [lambda1 |-> -1, lr |-> -1],
                \* held_out: the fold kept from the fit, -1 for a fit on all of X, y
                best_estimator_ |-> [id |-> -1, params |-> [lambda1 |-> -1, lr |-> -1],
                                     fitted |-> FALSE, held_out |-> -1],
                error |-> "none"]
    /\ loss = LossIdle /\ mon = MonIdle /\ net = NetIdle /\ fold = FoldIdle

\* _fit_and_score(clone(base_estimator), X, y, train, test, parameters)
FitAndScore(outcome) ==
    /\ gs.phase = "cv"
    /\ gs.pos < NCand(gs) * gs.k
    /\ outcome = FitFailed => gs.fails < MaxFails
    /\ LET pr == PairAt(gs, gs.pos)
       IN gs' = [gs EXCEPT
                   !.pos = gs.pos + 1,
                   !.fails = gs.fails + (IF outcome = FitFailed THEN 1 ELSE 0),
                   !.made = gs.made + 1,
                   !.scores[pr.cand][pr.fold] = outcome,
                   !.cv_log = Append(gs.cv_log,
                                     [cand |-> pr.cand, fold |-> pr.fold, est |-> gs.made + 1,
                                      params |-> CandParams(gs, pr.cand)])]
    /\ UNCHANGED <<loss, mon, net, fold>>

\* the results are aggregated and ranked, best_index_ and best_params_ set;
\* when every fit failed, scikit-learn from 1.0 on raises ValueError here and
\* scikit-learn 0.24 goes on with NaN means
Select(raise_all_failed) ==
    /\ gs.phase = "cv"
    /\ gs.pos = NCand(gs) * gs.k
    /\ gs.running = {}
    /\ gs' = IF AllFitsFailed(gs) /\ raise_all_failed
             THEN [gs EXCEPT !.phase = "error", !.error = "ValueError(all fits failed)"]
             ELSE LET best == best_index(gs)
                  IN [gs EXCEPT !.phase = "selected",
                                !.best_index_ = best,
                                !.best_params_ = CandParams(gs, best)]
    /\ UNCHANGED <<loss, mon, net, fold>>

\* if refit: best_estimator_ = clone(base_estimator).set_params(**best_params_)
\* is fitted on the whole of X, y; an error of that fit leaves GridSearchCV.fit
RefitMutant_KeepsLastCvFit(raises) ==
    /\ gs.phase = "selected"
    /\ gs.refit
    /\ gs' = IF raises
             THEN [gs EXCEPT !.phase = "error", !.error = "refit raised"]
             ELSE [gs EXCEPT !.phase = "done",
                             !.best_estimator_ = [id |-> gs.made,
                                                  params |-> gs.best_params_,
                                                  fitted |-> TRUE,
                                                  held_out |-> gs.k - 1]]
    /\ UNCHANGED <<loss, mon, net, fold>>

Refit(raises) ==
    /\ gs.phase = "selected"
    /\ gs.refit
    /\ gs' = IF raises
             THEN [gs EXCEPT !.phase = "error", !.error = "refit raised",
                             !.made = gs.made + 1,
                             !.best_estimator_ = [id |-> gs.made + 1,
                                                  params |-> gs.best_params_,
                                                  fitted |-> FALSE,
                                                  held_out |-> -1]]
             ELSE [gs EXCEPT !.phase = "done",
                             !.made = gs.made + 1,
                             !.best_estimator_ = [id |-> gs.made + 1,
                                                  params |-> gs.best_params_,
                                                  fitted |-> TRUE,
                                                  held_out |-> -1]]
    /\ UNCHANGED <<loss, mon, net, fold>>

\* without refit, fit returns after the selection
Finish ==
    /\ gs.phase = "selected"
    /\ ~gs.refit
    /\ gs' = [gs EXCEPT !.phase = "done"]
    /\ UNCHANGED <<loss, mon, net, fold>>

NextGS ==
    \/ \E outcome \in Outcomes : FitAndScore(outcome)
    \/ \E raise_all_failed \in BOOLEAN : Select(raise_all_failed)
    \/ \E raises \in BOOLEAN : Refit(raises)
    \/ Finish

SpecGS == InitGS /\ [][NextGS]_vars

----------------------------------------------------------------------------
(* SpecPar: GridSearchCV.fit with n_jobs workers.  joblib's Parallel hands   *)
(* the (candidate, fold) tasks to free workers in the order of the product, *)
(* each task fits and scores its own clone, tasks end in any order, and the *)
(* list Parallel returns holds the results in the order of the tasks.  The  *)
(* notebook leaves n_jobs=None, which is one worker.                        *)

\* the place in the list of results of the task dispatched as number pos
ResultSlotMutant_CompletionOrder(g, pos) == Len(g.completed)

ResultSlot(g, pos) == pos

InitPar ==
    /\ \E nLambda \in 1..GridLambdas, k \in 2..CvFolds, refit \in BOOLEAN,
          n_jobs \in 1..MaxWorkers :
          gs = [phase |-> "cv", nLambda |-> nLambda, nLr |-> 1, k |-> k, refit |-> refit,
                pos |-> 0, fails |-> 0, n_jobs |-> n_jobs, running |-> {},
                scores |-> [c \in 0..(nLambda - 1) |-> [f \in 0..(k - 1) |-> Pending]],
                made |-> 0,
                cv_log |-> <<>>,
                \* the tasks in the order they ended, and what each task's fit scored
                completed |-> <<>>,
                task_out |-> [t \in 0..(nLambda * k - 1) |-> Pending],
                best_index_ |-> -1, best_params_ |-> [lambda1 |-> -1, lr |-> -1],
                best_estimator_ |-> [id |-> -1, params |-> [lambda1 |-> -1, lr |-> -1],
                                     fitted |-> FALSE, held_out |-> -1],
                error |-> "none"]
    /\ loss = LossIdle /\ mon = MonIdle /\ net = NetIdle /\ fold = FoldIdle

\* a free worker takes the next task and clones the estimator for it
Dispatch ==
    /\ gs.phase = "cv"
    /\ gs.pos < NCand(gs) * gs.k
    /\ Cardinality(gs.running) < gs.n_jobs
    /\ LET pr == PairAt(gs, gs.pos)
       IN gs' = [gs EXCEPT
                   !.pos = gs.pos + 1,
                   !.running = gs.running \cup {gs.pos},
                   !.made = gs.made + 1,
                   !.cv_log = Append(gs.cv_log,
                                     [cand |-> pr.cand, fold |-> pr.fold, est |-> gs.made + 1,
                                      params |-> CandParams(gs, pr.cand)])]
    /\ UNCHANGED <<loss, mon, net, fold>>

\* a running task ends: its result goes to its slot of the list of results,
\* which _format_results reads as an array of candidates by folds
Complete(pos, outcome) ==
    /\ gs.phase = "cv"
    /\ pos \in gs.running
    /\ outcome = FitFailed => gs.fails < MaxFails
    /\ LET pr == PairAt(gs, ResultSlot(gs, pos))
       IN gs' = [gs EXCEPT
                   !.running = gs.running \ {pos},
                   !.fails = gs.fails + (IF outcome = FitFailed THEN 1 ELSE 0),
                   !.completed = Append(gs.completed, pos),
                   !.task_out[pos] = outcome,
                   !.scores[pr.cand][pr.fold] = outcome]
    /\ UNCHANGED <<loss, mon, net, fold>>

NextPar ==
    \/ Dispatch
    \/ \E pos \in 0..(GridLambdas * CvFolds - 1), outcome \in Outcomes : Complete(pos, outcome)
    \/ \E raise_all_failed \in BOOLEAN : Select(raise_all_failed)
    \/ \E raises \in BOOLEAN : Refit(raises)
    \/ Finish

SpecPar == InitPar /\ [][NextPar]_vars

----------------------------------------------------------------------------
(* Claims about the Early Stopping Monitor (under SpecMon).                *)

Front(h) == SubSeq(h, 1, Len(h) - 1)

\* a is strictly better than b in the monitor's direction
Better(lib, a, b) == IF lib THEN a < b ELSE a > b

RECURSIVE BestOf(_, _)
\* the best, by direction, of the values of a non-empty sequence
BestOf(lib, h) ==
    IF Len(h) = 1 THEN h[1]
    ELSE LET b == BestOf(lib, Front(h))
         IN IF Better(lib, h[Len(h)], b) THEN h[Len(h)] ELSE b

RECURSIVE Plateau(_, _)
\* how many observations at the end of h did not strictly improve on the
\* best value before them (0 when the last one did, or is the first)
Plateau(lib, h) ==
    IF Len(h) <= 1 THEN 0
    ELSE IF Better(lib, h[Len(h)], BestOf(lib, Front(h))) THEN 0
    ELSE Plateau(lib, Front(h)) + 1

\* a beats the reference b by more than the relative threshold 1e-4
Beats(lib, a, b) ==
    IF lib THEN ThresholdDen * a < (ThresholdDen - 1) * b
    ELSE ThresholdDen * a > (ThresholdDen + 1) * b

RECURSIVE RefOf(_, _)
\* the most recent value of h that beat the reference before it (the first
\* value is the first reference)
RefOf(lib, h) ==
    IF Len(h) = 1 THEN h[1]
    ELSE LET r == RefOf(lib, Front(h))
         IN IF Beats(lib, h[Len(h)], r) THEN h[Len(h)] ELSE r

RECURSIVE ThresholdPlateau(_, _)
\* how many observations at the end of h did not beat the reference
ThresholdPlateau(lib, h) ==
    IF Len(h) <= 1 THEN 0
    ELSE IF Beats(lib, h[Len(h)], RefOf(lib, Front(h))) THEN 0
    ELSE ThresholdPlateau(lib, Front(h)) + 1

\* C2 (as claimed): for patience p >= 1 the observation just made returned
\* stop exactly when it is the p-th consecutive observation that did not
\* strictly improve on best_value.
C2_StopAtPthNonImproving ==
    (mon.active /\ mon.patience >= 1 /\ mon.history # <<>>)
        => (mon.last = "stop" <=> Plateau(mon.lower_is_better, mon.history) = mon.patience)

\* C2 (amended): for patience p >= 1 the observation just made returned stop
\* exactly when it is the p-th consecutive observation that did not beat the
\* last reference value by more than the relative threshold 1e-4; the first
\* observation returns continue.
C2_StopAtPthBelowThreshold ==
    (mon.active /\ mon.patience >= 1 /\ mon.history # <<>>)
        => /\ mon.last = "stop"
                <=> ThresholdPlateau(mon.lower_is_better, mon.history) = mon.patience
           /\ Len(mon.history) = 1 => mon.last = "continue"

\* C2 witness: a stop at the p-th observation below the threshold although
\* one of those p observations was a strict improvement on the best value.
C2_Witness ==
    /\ mon.active /\ mon.patience >= 2 /\ mon.last = "stop"
    /\ ThresholdPlateau(mon.lower_is_better, mon.history) = mon.patience
    /\ Plateau(mon.lower_is_better, mon.history) < mon.patience

\* the spec's example: 0.80, 0.85, 0.85, 0.85, 0.85 of 12000 rows, patience 3,
\* higher is better, stops at the 5th call
C2_Example ==
    (mon.active /\ mon.patience = 3 /\ ~mon.lower_is_better
       /\ Len(mon.history) <= 5
       /\ mon.history = SubSeq(<<9600, 10200, 10200, 10200, 10200>>, 1, Len(mon.history)))
        => (mon.last = "stop" <=> Len(mon.history) = 5)

\* C12 (as claimed): with patience = 0 the first observation returns
\* continue, and a later observation returns stop exactly when it does not
\* strictly improve on the best value before it.
C12_PatienceZeroStopsOnFirstMiss ==
    (mon.active /\ mon.patience = 0 /\ mon.history # <<>>) =>
        /\ Len(mon.history) = 1 => mon.last = "continue"
        /\ Len(mon.history) > 1 =>
              (mon.last = "stop"
                 <=> ~Better(mon.lower_is_better, mon.history[Len(mon.history)],
                             BestOf(mon.lower_is_better, Front(mon.history))))

----------------------------------------------------------------------------
(* Claims about the estimator's fit and predict (under Spec).              *)

InFit == net.pc \in {"initialized", "training", "stopped_early", "exhausted"}

\* C1: every fit applies initialize_module once, after the module is built
\* and before the first epoch; with reinit_from_pretrain = True the module's
\* parameters when the first epoch starts are the pickle's values, on a first
\* fit, on a second fit of a fitted estimator and on a clone's fit.
C1_FitStartsFromSnapshot ==
    InFit =>
        /\ net.init_calls = 1
        /\ net.initialized_ /\ net.has_module
        /\ net.pc = "initialized" => net.history = <<>>
        /\ net.reinit_from_pretrain =>
              /\ net.pc = "initialized" => net.module_ = net.pkl.t
              /\ net.history # <<>> => net.start_params = net.pkl.t

\* C1 witness: the second fit of an estimator that is already fitted, in
\* snapshot mode, has run its first epoch from the pickle's values.
C1_Witness ==
    /\ net.pc = "training" /\ net.reinit_from_pretrain
    /\ net.fits = 2 /\ net.fitted
    /\ net.history # <<>> /\ net.start_params = net.pkl.t
    /\ net.module_ # net.pkl.t

\* C8 (as claimed): when load_state_dict fails on a missing key or another
\* shape, every parameter of the module keeps the value it had before the
\* call, that is its default initialisation.
C8_FailedLoadChangesNothing ==
    net.error = "RuntimeError(load_state_dict)"
        => \E r \in RandomInits : net.module_ = NewModule(r)

\* C10 (as claimed): predict succeeds only on an estimator one of whose fits
\* has completed; before that it raises the not-fitted error and changes
\* nothing else.
C10_PredictRequiresFitted ==
    [][Predict =>
          IF net.fitted THEN net'.predicted
          ELSE net' = [net EXCEPT !.error = "NotInitializedError", !.predicted = FALSE]]_vars

RECURSIVE Observed(_, _)
\* the callback after on_train_begin and one on_epoch_end per value of h
Observed(m, h) ==
    IF h = <<>> THEN MonitorReset(m)
    ELSE CHOOSE r \in {MonitorUpdate(b, h[Len(h)]) : b \in {Observed(m, Front(h))}} : TRUE

\* the estimator's side of C20: within one fit the history has one entry per
\* epoch run, and the callback has observed exactly these entries in order.
C20_MonitorObservedHistory ==
    /\ net.pc \in {"training", "stopped_early", "exhausted"}
          => net.early_stop = Observed(net.early_stop, net.history)
    /\ net.pc = "stopped_early" => MonitorStops(net.early_stop)
    /\ (net.pc \in {"training", "exhausted"} /\ net.history # <<>>)
          => ~MonitorStops(net.early_stop)

\* C15: when the first epoch of a fit starts, the monitor has no best value
\* (its threshold is the infinity every score beats) and no misses, and the
\* module's parameters are its initialization values: the pickle's in snapshot
\* mode, a fresh random initialization otherwise; so the first observation of
\* every fit counts as an improvement.  This holds on a constructed estimator,
\* on a clone of the prototype and on an estimator fitted before, however its
\* earlier fit ended.
C15_FitStartsFresh ==
    /\ (net.pc = "training" /\ net.history = <<>>) =>
          /\ net.early_stop.misses_ = 0
          /\ net.early_stop.dynamic_threshold_
                = (IF net.early_stop.lower_is_better THEN PInf ELSE NInf)
          /\ IF net.reinit_from_pretrain THEN net.module_ = net.pkl.t
             ELSE \E r \in RandomInits : net.module_ = NewModule(r)
    /\ (InFit /\ Len(net.history) = 1) =>
          /\ net.early_stop.misses_ = 0
          /\ net.early_stop.dynamic_threshold_
                = calc_new_threshold(net.early_stop.lower_is_better, net.history[1])

\* C15 witness: the first epoch of a fit is about to start on an estimator
\* whose earlier fit was stopped by the monitor after several epochs.
C15_Witness ==
    /\ net.pc = "training" /\ net.history = <<>>
    /\ net.prev.completed /\ net.prev.stop = "stopped_early" /\ Len(net.prev.history) >= 2
    /\ net.early_stop.misses_ = 0

RECURSIVE Stepped(_, _)
\* the parameters after n optimizer steps from module
Stepped(module, n) ==
    IF n = 0 THEN module
    ELSE OptimizerStep(Stepped(module, n - 1), Fin(CHOOSE g \in GradSteps : TRUE))

\* the epoch with the best validation metric: the first one at the maximum
BestEpoch(h) ==
    CHOOSE e \in 1..Len(h) :
        /\ \A j \in 1..Len(h) : h[j] <= h[e]
        /\ \A j \in 1..(e - 1) : h[j] < h[e]

\* the last fit completed on finite data
Fitted == net.pc = "idle" /\ net.last_stop # "none" /\ net.X = "ok"

\* C16: once a fit has reached FITTED the module's parameters are those the
\* last executed epoch produced, one optimizer step per recorded epoch from
\* the initialization, after an early stop too; predict and save_params
\* leave them so, and nothing puts back the parameters of the best epoch.
C16_KeepsFinalEpochParams ==
    Fitted => net.module_ = Stepped(net.start_params, Len(net.history))

\* C16 witness: a fit stopped early whose best epoch was its first; predict
\* has run on the parameters of the last epoch, which are not the first's.
C16_Witness ==
    /\ Fitted /\ net.last_stop = "stopped_early" /\ net.predicted
    /\ Len(net.history) >= 2 /\ BestEpoch(net.history) = 1
    /\ net.module_ = Stepped(net.start_params, Len(net.history))
    /\ net.module_ # Stepped(net.start_params, BestEpoch(net.history))

\* C13 (as claimed): when a batch's loss is NaN or infinite the fit aborts
\* there with NumericalDivergenceError: no further epoch runs, the fit does
\* not complete and yields no fitted estimator to score.
C13_NonFiniteLossAbortsFit ==
    net.nonfinite_at > 0 =>
        /\ net.pc = "idle" /\ net.error = "NumericalDivergenceError"
        /\ net.last_stop = "none"
        /\ Len(net.history) <= net.nonfinite_at

\* the epoch loop of the current fit has ended
LoopOver == net.pc \in {"stopped_early", "exhausted"}

\* the monitor signals stop on the last value of h: it is the patience-th
\* value in a row that does not beat the reference by the threshold
Signalled(h) ==
    h # <<>> /\ ThresholdPlateau(net.early_stop.lower_is_better, h) = net.early_stop.patience

\* no observation was made after a stop signal: no value of h before the
\* last was signalled on
NoneAfterStop(h) == \A j \in 1..(Len(h) - 1) : ~Signalled(SubSeq(h, 1, j))

\* C14 (as claimed): a fit's epoch loop ends after 1 to max_epochs epochs, as
\* STOPPED_EARLY exactly when the monitor signalled stop before max_epochs
\* epochs were executed and as EXHAUSTED_BUDGET otherwise.
C14_StoppedEarlyIffStopBeforeBudget ==
    LoopOver =>
        /\ 1 <= Len(net.history) /\ Len(net.history) <= net.max_epochs
        /\ net.pc = "stopped_early"
              <=> (Signalled(net.history) /\ Len(net.history) < net.max_epochs)

\* the epoch loop: at most max_epochs epochs, none after a stop signal; it ends
\* stopped early exactly when the monitor signalled stop on the last executed
\* epoch, and exhausted exactly when max_epochs epochs ran without a signal
C14_EpochLoop ==
    /\ InFit => (Len(net.history) <= net.max_epochs /\ NoneAfterStop(net.history))
    /\ net.pc = "training" =>
          (Len(net.history) < net.max_epochs /\ ~Signalled(net.history))
    /\ LoopOver =>
          /\ 1 <= Len(net.history)
          /\ net.pc = "stopped_early" <=> Signalled(net.history)
          /\ net.pc = "exhausted"
                <=> (Len(net.history) = net.max_epochs /\ ~Signalled(net.history))

\* the order of the states of one fit; only on_train_end makes it fitted
C14_Order ==
    /\ net'.pc # net.pc =>
          \/ net.pc = "idle" /\ net'.pc = "initialized"
          \/ net.pc = "initialized" /\ net'.pc = "training"
          \/ net.pc = "training" /\ net'.pc \in {"stopped_early", "exhausted"}
          \/ net.pc = "training" /\ net'.pc = "idle" /\ net'.error # "none"
          \/ LoopOver /\ net'.pc = "idle" /\ net'.fitted /\ net'.last_stop = net.pc
    /\ net'.history # net.history =>
          \/ net.pc = "training" /\ Len(net'.history) = Len(net.history) + 1
          \/ net.pc = "idle" /\ net'.history = <<>>

\* C14 (amended): every fit that does not fail goes from UNINITIALIZED through
\* INITIALIZED and TRAINING to STOPPED_EARLY or EXHAUSTED_BUDGET and then
\* FITTED, after 1 to max_epochs epochs; it is STOPPED_EARLY exactly when the
\* monitor signalled stop on an executed epoch, the max_epochs-th included, and
\* EXHAUSTED_BUDGET when max_epochs epochs ran without a signal; nothing is
\* executed or observed after a stop signal.
C14_FitRunsToFitted ==
    /\ []C14_EpochLoop
    /\ [][C14_Order]_vars
    /\ InFit ~> (net.pc = "idle" /\ (net.error = "none" => net.last_stop # "none"))

\* C14 witness: a fit that was stopped by the monitor on its max_epochs-th
\* epoch, after an earlier epoch, and is fitted.
C14_Witness ==
    /\ net.pc = "idle" /\ net.fitted /\ net.last_stop = "stopped_early"
    /\ Len(net.history) = net.max_epochs /\ net.max_epochs >= 2

\* the current fit and the fit before it, on this estimator, ran on the same
\* data with the same hyperparameters from the same parameters
SameStart ==
    net.prev.completed /\ net.prev.X = net.X /\ net.prev.start_params = net.start_params

\* C11 (as claimed): two fits with identical data, identical hyperparameters
\* and the same snapshot produce identical Metric Histories: the same number
\* of epochs, the same validation metric at every epoch, the same stop.
C11_SameSnapshotSameHistory ==
    (LoopOver /\ net.reinit_from_pretrain /\ SameStart)
        => (net.history = net.prev.history /\ net.pc = net.prev.stop)

\* the same with module__dropout = 0.0, as new_net_gs is configured
C11_SameHistoryWithoutDropout ==
    (LoopOver /\ ~net.dropout /\ SameStart)
        => (net.history = net.prev.history /\ net.pc = net.prev.stop)

\* a second fit from the snapshot without dropout has ended as the first did
C11_RepeatedFit ==
    /\ LoopOver /\ ~net.dropout /\ net.reinit_from_pretrain /\ SameStart
    /\ Len(net.history) >= 2 /\ net.history = net.prev.history

----------------------------------------------------------------------------
(* Claims about the Fold Partition (under SpecFold).                       *)

\* C7: when cv divides the number of rows, the folds are pairwise disjoint,
\* their union is the full index set, every row is in exactly one fold and
\* every fold has exactly n / k rows.
C7_FoldsPartitionEvenly ==
    (fold.done /\ ~fold.raised /\ Len(fold.y) % fold.k = 0) =>
        /\ Len(fold.folds) = fold.k
        /\ \A i, j \in 1..fold.k : i # j => fold.folds[i].test \cap fold.folds[j].test = {}
        /\ UNION {fold.folds[i].test : i \in 1..fold.k} = Rows(fold.y)
        /\ \A r \in Rows(fold.y) : Cardinality({i \in 1..fold.k : r \in fold.folds[i].test}) = 1
        /\ \A i \in 1..fold.k : Cardinality(fold.folds[i].test) * fold.k = Len(fold.y)

\* C7 witness: six rows, four of one class and two of the other, split into
\* three folds of two rows.
C7_Witness ==
    /\ fold.done /\ ~fold.raised /\ Len(fold.y) = 6 /\ fold.k = 3
    /\ Cardinality({i \in 1..6 : fold.y[i] = 0}) = 4
    /\ \A i \in 1..3 : Cardinality(fold.folds[i].test) = 2

\* C17: the fit for fold i is given exactly the rows outside fold i; its
\* internal training slice and validation slice are disjoint, both lie outside
\* fold i and together they are all rows of the other folds; the score is
\* taken on exactly the rows of fold i.
C17_FitOutsideFoldScoreOnFold ==
    \A n \in 1..Len(fold.fits) :
        LET f == fold.fits[n]
            held == fold.folds[f.fold + 1].test
            others == UNION {fold.folds[j].test : j \in (1..fold.k) \ {f.fold + 1}}
        IN /\ f.fold = n - 1
           /\ f.X = Rows(fold.y) \ held
           /\ ~f.raised =>
                 /\ f.train \cap f.valid = {}
                 /\ (f.train \cup f.valid) \cap held = {}
                 /\ f.train \cup f.valid = others
                 /\ f.train # {} /\ f.valid # {}
                 /\ f.scored = held
           /\ f.raised => (f.train = {} /\ f.valid = {} /\ f.scored = {})

\* C17 witness: eight rows of one class in three folds; the fit for fold 0
\* is given rows 3..7, validates on row 3 and trains on rows 4..7, and the fit
\* for fold 2 is given rows 0..5, validates on two of them and trains on four.
C17_Witness ==
    /\ Len(fold.y) = 8 /\ fold.k = 3 /\ Len(fold.fits) = 3
    /\ ~fold.fits[1].raised /\ ~fold.fits[3].raised
    /\ fold.fits[1].scored = {0, 1, 2}
    /\ fold.fits[1].valid = {3} /\ fold.fits[1].train = {4, 5, 6, 7}
    /\ Cardinality(fold.fits[3].train) = 4 /\ Cardinality(fold.fits[3].valid) = 2
    /\ fold.fits[3].scored = {6, 7}

----------------------------------------------------------------------------
(* Claims about the grid search (under SpecGS).                            *)

Cands == 0..(NCand(gs) - 1)
Folds == 0..(gs.k - 1)

CvOver == gs.phase \in {"selected", "done", "error"}

\* the combinations of the grid, as value indexes
Combos == {[lambda1 |-> a, lr |-> b] : a \in 0..(gs.nLambda - 1), b \in 0..(gs.nLr - 1)}

\* the log entries of the fits made for combination P on fold f
FitsFor(P, f) == {i \in 1..Len(gs.cv_log) : gs.cv_log[i].params = P /\ gs.cv_log[i].fold = f}

\* C5: a search over C combinations and k folds makes exactly C * k
\* cross-validation fits, one per (combination, fold) pair, each on an
\* estimator cloned for it; a 2 x 2 grid with k = 3 makes 12.
C5_OneFitPerPair ==
    /\ gs.phase = "cv" => Len(gs.cv_log) = gs.pos
    /\ CvOver =>
          /\ Len(gs.cv_log) = Cardinality(Combos) * gs.k
          /\ \A P \in Combos, f \in Folds : Cardinality(FitsFor(P, f)) = 1
          /\ (gs.nLambda = 2 /\ gs.nLr = 2 /\ gs.k = 3) => Len(gs.cv_log) = 12
    /\ \A i, j \in 1..Len(gs.cv_log) :
          /\ gs.cv_log[i].est >= 1
          /\ i # j => gs.cv_log[i].est # gs.cv_log[j].est

\* C5 witness: the 2 x 2 grid with cv = 3 after its twelfth fit.
C5_Witness ==
    /\ gs.phase = "selected" /\ gs.nLambda = 2 /\ gs.nLr = 2 /\ gs.k = 3
    /\ Len(gs.cv_log) = 12

Viable(c) == \A f \in Folds : gs.scores[c][f].st = "ok"

RECURSIVE ScoreTotal(_, _)
\* the sum of candidate c's scores over a set of folds
ScoreTotal(c, fs) ==
    IF fs = {} THEN 0
    ELSE LET f == CHOOSE x \in fs : TRUE
         IN gs.scores[c][f].v + ScoreTotal(c, fs \ {f})

\* lexicographic order of combinations: lambda1 first, then lr
LexLess(P, Q) == P.lambda1 < Q.lambda1 \/ (P.lambda1 = Q.lambda1 /\ P.lr < Q.lr)

\* the candidate number under which combination P was fitted
CandOf(P) == gs.cv_log[CHOOSE i \in 1..Len(gs.cv_log) : gs.cv_log[i].params = P].cand

\* C6: the reported best combination has the highest mean of its k fold
\* scores (all means have the denominator k), and among the combinations
\* with that mean it is the first in lexicographic order.
C6_BestIsFirstHighestMean ==
    (gs.phase \in {"selected", "done"} /\ \E c \in Cands : Viable(c)) =>
        /\ gs.best_params_ \in Combos
        /\ CandOf(gs.best_params_) = gs.best_index_
        /\ Viable(gs.best_index_)
        /\ \A Q \in Combos :
              Viable(CandOf(Q)) =>
                 /\ ScoreTotal(CandOf(Q), Folds) * gs.k <= ScoreTotal(gs.best_index_, Folds) * gs.k
                 /\ (ScoreTotal(CandOf(Q), Folds) = ScoreTotal(gs.best_index_, Folds)
                       /\ Q # gs.best_params_) => LexLess(gs.best_params_, Q)

\* C6 witness: two combinations tie at the highest mean, above the first
\* combination, and the earlier of the two is reported.
C6_Witness ==
    /\ gs.phase = "selected" /\ gs.nLambda = 2 /\ gs.nLr = 2
    /\ gs.best_index_ = 1 /\ Viable(0) /\ Viable(1) /\ Viable(2)
    /\ ScoreTotal(2, Folds) = ScoreTotal(1, Folds)
    /\ ScoreTotal(0, Folds) < ScoreTotal(1, Folds)

\* C18: with refit, a search that ends without error has made exactly one
\* estimator beyond the C * k of cross-validation, after all of them and after
\* the selection; that estimator has the winning parameters, was fitted with
\* no fold held out and is the result's best_estimator_.  Before the selection
\* and without refit there is no such estimator and no further fit.
C18_OneRefitAfterSelection ==
    /\ gs.phase \in {"cv", "selected"} =>
          (gs.best_estimator_.id = -1 /\ gs.made = gs.pos)
    /\ (gs.phase = "done" /\ gs.refit) =>
          /\ Len(gs.cv_log) = NCand(gs) * gs.k
          /\ gs.made = NCand(gs) * gs.k + 1
          /\ gs.best_estimator_.id = gs.made
          /\ \A i \in 1..Len(gs.cv_log) : gs.cv_log[i].est < gs.best_estimator_.id
          /\ gs.best_estimator_.params = CandParams(gs, gs.best_index_)
          /\ gs.best_estimator_.fitted
          /\ gs.best_estimator_.held_out = -1
    /\ (gs.phase = "done" /\ ~gs.refit) =>
          (gs.made = NCand(gs) * gs.k /\ gs.best_estimator_.id = -1)

\* C18 witness: the 2 x 2 grid with cv = 3 and refit: the thirteenth estimator
\* is the fitted best_estimator_, with the parameters of the last candidate.
C18_Witness ==
    /\ gs.phase = "done" /\ gs.refit /\ gs.nLambda = 2 /\ gs.nLr = 2 /\ gs.k = 3
    /\ gs.best_estimator_.id = 13 /\ gs.best_estimator_.fitted
    /\ gs.best_index_ = 3 /\ gs.best_estimator_.params = [lambda1 |-> 1, lr |-> 1]

\* the table of scores of the sequential evaluation of the same fits: the
\* score of the fit of candidate c on fold f, which is task c * k + f
SequentialScores == [c \in Cands |-> [f \in Folds |-> gs.task_out[c * gs.k + f]]]

C9_FailsIffNoViableCombination ==
    (CvOver /\ gs.error # "refit raised") =>
        /\ gs.pos = NCand(gs) * gs.k
        /\ (\E c \in Cands : Viable(c)) => (gs.phase # "error" /\ Viable(gs.best_index_))
        /\ (\A c \in Cands : ~Viable(c)) <=> (gs.phase = "error" /\ gs.best_index_ = -1)

====
